---- MODULE Spec2Model ----
(***************************************************************************)
(* A model of the CoffeeGPT2 data pipeline: the numeric cell parser and    *)
(* series loader (load.py), the calendar aligner (load.py), and the null   *)
(* tracker, gap filler and feature deriver (process.py), as orchestrated   *)
(* by run_data_pipeline (data_pipeline.py).                                *)
(*                                                                         *)
(* A table (polars LazyFrame) is a sequence of columns; a column is a      *)
(* record [name, vals, src, by]: name is the column name split at "_"      *)
(* into tokens, vals the cell values in row order, and src / by record the *)
(* column the producing expression read (pl.col(src)) and the operation    *)
(* that produced it.                                                       *)
(***************************************************************************)
EXTENDS Integers, Sequences, FiniteSets, TLC

VARIABLES
    lf,        \* Spec: the table the caller holds
    prev,      \* Spec: the table the last call was given
    out,       \* Spec: outcome of the last call: [kind, err, lf]
    call,      \* Spec: the last call: [op, arg]
    nops,      \* Spec: number of calls made
    cell,      \* SpecParse: the raw text of one numeric cell
    parsed,    \* SpecParse: what the numeric column transform made of it
    files,     \* SpecLoad: the CSV files handed to _futures_readin_bind
    series,    \* SpecLoad: the outcome of _futures_readin_bind
    data,      \* SpecAlign: the dict of named series given to concat_all_data
    aligned,   \* SpecAlign: the outcome of concat_all_data
    pipe,      \* SpecPipeline: run_data_pipeline's arguments, locals and position
    scen       \* SpecScenario: the table and position of the gold/oil scenario

procVars == <<lf, prev, out, call, nops>>
parseVars == <<cell, parsed>>
loadVars == <<files, series>>
alignVars == <<data, aligned>>
vars == <<procVars, parseVars, loadVars, alignVars, pipe, scen>>

(***************************** bounds **************************************)
MaxRows == 3      \* rows of an input table
MaxVal == 2       \* cell values are 1..MaxVal or null
MaxOps == 2       \* calls per behaviour
MaxWindow == 2    \* window sizes tried
MaxLen == 3       \* characters of a generated cell text
MaxLoadRows == 3  \* CSV rows over all files of one load
MaxDay == 3       \* the days on which a series may have a row are 1..MaxDay

(***************************** cell values *********************************)
\* A cell is null, an exact rational n/d, or the application of a function
\* whose result is not rational (sqrt, ln, ...) to its argument cells.
Null == [op |-> "null", n |-> 0, d |-> 1, args |-> <<>>]

RECURSIVE GCD(_, _)
GCD(a, b) == IF b = 0 THEN a ELSE GCD(b, a % b)

Abs(x) == IF x < 0 THEN -x ELSE x

Rat(n, d) ==
    LET s == IF d < 0 THEN -1 ELSE 1
        g == GCD(Abs(n), Abs(d))
    IN  [op |-> "num", n |-> (s * n) \div g, d |-> (s * d) \div g, args |-> <<>>]

Int8(i) == Rat(i, 1)

Term(f, p, q, as) == [op |-> f, n |-> p, d |-> q, args |-> as]

IsNull(v) == v.op = "null"
IsNum(v) == v.op = "num"

RatAdd(a, b) == Rat(a.n * b.d + b.n * a.d, a.d * b.d)
RatSub(a, b) == Rat(a.n * b.d - b.n * a.d, a.d * b.d)
RatMul(a, b) == Rat(a.n * b.n, a.d * b.d)

RECURSIVE RatSum(_)
RatSum(s) == IF s = <<>> THEN Rat(0, 1) ELSE RatAdd(Head(s), RatSum(Tail(s)))

AllNum(s) == \A i \in 1..Len(s) : IsNum(s[i])

NonNull(s) == SelectSeq(s, LAMBDA v : ~IsNull(v))

(***************************** column names *******************************)
\* "gold_Price_ma_2d" is <<"gold", "Price", "ma", "2d">>.
DateName == <<"Date">>

EndsWith(name, suffix) ==
    /\ Len(name) > Len(suffix)
    /\ SubSeq(name, Len(name) - Len(suffix) + 1, Len(name)) = suffix

\* Python's `"_" + "_".join(infix) + "_" in col`: the tokens of infix occur
\* consecutively, after the first token and before the last one.
HasInfix(name, infix) ==
    \E i \in 2..Len(name) :
        /\ i + Len(infix) - 1 < Len(name)
        /\ SubSeq(name, i, i + Len(infix) - 1) = infix

\* Python's `"_" + "_".join(part) in col`: the tokens of part occur
\* consecutively after the first token (possibly at the end).
HasPart(name, part) ==
    \E i \in 2..Len(name) :
        /\ i + Len(part) - 1 <= Len(name)
        /\ SubSeq(name, i, i + Len(part) - 1) = part

Col(name, vals, src, by) == [name |-> name, vals |-> vals, src |-> src, by |-> by]

Names(t) == [i \in 1..Len(t) |-> t[i].name]
NameSet(t) == {t[i].name : i \in 1..Len(t)}
Height(t) == IF t = <<>> THEN 0 ELSE Len(t[1].vals)
ColOf(t, name) == t[CHOOSE i \in 1..Len(t) : t[i].name = name]

(***************************** results *************************************)
Ok(t) == [kind |-> "table", err |-> "none", lf |-> t]
Raise(e) == [kind |-> "raise", err |-> e, lf |-> <<>>]
ReturnsNone == [kind |-> "None", err |-> "none", lf |-> <<>>]
\* Before the call: no outcome yet.
NotLoaded == [kind |-> "pending", err |-> "none", lf |-> <<>>]
Pending == [op |-> "pending", n |-> 0, d |-> 0, args |-> <<>>]
NoRun == [pc |-> "idle"]

\* polars with_columns: an expression whose alias names an existing column
\* replaces it in place, any other is appended; two expressions with the
\* same alias are a DuplicateError.
RECURSIVE WithColumns(_, _)
WithColumns(t, exprs) ==
    IF exprs = <<>> THEN t
    ELSE LET e == Head(exprs)
             t1 == IF e.name \in NameSet(t)
                   THEN [i \in 1..Len(t) |-> IF t[i].name = e.name THEN e ELSE t[i]]
                   ELSE Append(t, e)
         IN  WithColumns(t1, Tail(exprs))

HasDuplicateAlias(exprs) ==
    \E i, j \in 1..Len(exprs) : i < j /\ exprs[i].name = exprs[j].name

with_columns(t, exprs) ==
    IF HasDuplicateAlias(exprs) THEN Raise("DuplicateError")
    ELSE Ok(WithColumns(t, exprs))

(***************************** base columns ********************************)
\* process.py _get_base_columns: the six name tests of the source, in order.
_get_base_columns(t) ==
    SelectSeq(Names(t), LAMBDA col :
        ~ \/ EndsWith(col, <<"was", "null">>)
          \/ col = DateName
          \/ HasInfix(col, <<"ma">>)
          \/ HasInfix(col, <<"ewma">>)
          \/ HasPart(col, <<"return">>)
          \/ HasPart(col, <<"log", "return">>))

(***************************** window kernels ******************************)
Max(a, b) == IF a > b THEN a ELSE b

\* The trailing window of row i: the last w rows, current row included.
Window(vals, i, w) == SubSeq(vals, Max(1, i - w + 1), i)

\* A rolling mean that counts the rows of the window, null or not, against
\* min_samples.
rolling_mean_CountsRows(vals, w, ms) ==
    [i \in 1..Len(vals) |->
        LET win == Window(vals, i, w)
            nn == NonNull(win)
        IN  IF Len(win) < ms \/ nn = <<>> THEN Null
            ELSE LET s == RatSum(nn) IN Rat(s.n, s.d * Len(nn))]

\* polars rolling_mean(window_size, min_samples): the mean of the non-null
\* cells of the window when at least min_samples of them are non-null.
rolling_mean(vals, w, ms) ==
    [i \in 1..Len(vals) |->
        LET nn == NonNull(Window(vals, i, w))
        IN  IF Len(nn) < ms THEN Null
            ELSE IF AllNum(nn)
                 THEN LET s == RatSum(nn) IN Rat(s.n, s.d * Len(nn))
                 ELSE Term("mean", w, ms, nn)]

\* polars rolling_std / rolling_var: a function of the window's non-null
\* cells, null below min_samples.
rolling_stat(stat, vals, w, ms) ==
    [i \in 1..Len(vals) |->
        LET nn == NonNull(Window(vals, i, w))
        IN  IF Len(nn) < ms THEN Null ELSE Term(stat, w, ms, nn)]

\* polars ewm_mean: a function of the cells up to and including row i.
ewm_mean(vals, param, value) ==
    [i \in 1..Len(vals) |->
        IF NonNull(SubSeq(vals, 1, i)) = <<>> THEN Null
        ELSE Term("ewm_" \o param, value.n, value.d, SubSeq(vals, 1, i))]

\* polars shift(1): row i holds row i-1, the first row is null.
shift1(vals) == [i \in 1..Len(vals) |-> IF i = 1 THEN Null ELSE vals[i - 1]]

\* The price ratio itself, without the subtraction of 1.
PercentReturn_Ratio(vals) ==
    [i \in 1..Len(vals) |->
        LET cur == vals[i]
            prv == shift1(vals)[i]
        IN  IF IsNull(cur) \/ IsNull(prv) THEN Null
            ELSE Rat(cur.n * prv.d, cur.d * prv.n)]

\* pl.col(col) / pl.col(col).shift(1) - 1
PercentReturn(vals) ==
    [i \in 1..Len(vals) |->
        LET cur == vals[i]
            prv == shift1(vals)[i]
        IN  IF IsNull(cur) \/ IsNull(prv) THEN Null
            ELSE IF IsNum(cur) /\ IsNum(prv) /\ prv.n # 0
                 THEN RatSub(Rat(cur.n * prv.d, cur.d * prv.n), Rat(1, 1))
                 ELSE Term("div_minus_1", 0, 1, <<cur, prv>>)]

\* pl.col(col).log() - pl.col(col).shift(1).log()
LogReturn(vals) ==
    [i \in 1..Len(vals) |->
        LET cur == vals[i]
            prv == shift1(vals)[i]
        IN  IF IsNull(cur) \/ IsNull(prv) THEN Null
            ELSE Term("log_diff", 0, 1, <<cur, prv>>)]

(***************************** feature deriver *****************************)
WindowToken(w) == ToString(w) \o "d"

\* One expression per base column: pl.col(col).<kernel>.alias(col + suffix).
Exprs(t, base, suffix, by, Kernel(_)) ==
    [k \in 1..Len(base) |->
        Col(base[k] \o suffix, Kernel(ColOf(t, base[k]).vals), base[k], by)]

_add_percent_returns(t) ==
    with_columns(t, Exprs(t, _get_base_columns(t), <<"return">>, "add_returns",
                          PercentReturn))

_add_log_returns(t) ==
    with_columns(t, Exprs(t, _get_base_columns(t), <<"log", "return">>, "add_returns",
                          LogReturn))

ReturnTypeNames == {"percent", "log"}

SeqRange(s) == {s[i] : i \in 1..Len(s)}

add_returns(t, return_types) ==
    IF return_types = <<>> THEN Raise("ValueError")
    ELSE IF ~(SeqRange(return_types) \subseteq ReturnTypeNames) THEN Raise("ValueError")
    ELSE LET r1 == IF "percent" \in SeqRange(return_types)
                   THEN _add_percent_returns(t) ELSE Ok(t)
         IN  IF r1.kind # "table" THEN r1
             ELSE IF "log" \in SeqRange(return_types)
                  THEN _add_log_returns(r1.lf) ELSE r1

\* moving_average validation loop (process.py lines 126-134).
MaConfigValid(c) == ~(c[1] <= 0) /\ ~(c[2] <= 0) /\ ~(c[2] > c[1])

RECURSIVE Flatten(_)
Flatten(ss) == IF ss = <<>> THEN <<>> ELSE Head(ss) \o Flatten(Tail(ss))

moving_average(t, ma_configs) ==
    IF \E k \in 1..Len(ma_configs) : ~MaConfigValid(ma_configs[k])
    THEN Raise("ValueError")
    ELSE LET base == _get_base_columns(t)
             all_expressions ==
                 Flatten([k \in 1..Len(ma_configs) |->
                     Exprs(t, base, <<"ma", WindowToken(ma_configs[k][1])>>,
                           "moving_average",
                           LAMBDA v : rolling_mean(v, ma_configs[k][1], ma_configs[k][2]))])
         IN  with_columns(t, all_expressions)

_add_rolling_std(t, window_size, min_samples) ==
    with_columns(t, Exprs(t, _get_base_columns(t),
                          <<"rolling", "std", WindowToken(window_size)>>,
                          "add_rolling_stats",
                          LAMBDA v : rolling_stat("std", v, window_size, min_samples)))

_add_rolling_var(t, window_size, min_samples) ==
    with_columns(t, Exprs(t, _get_base_columns(t),
                          <<"rolling", "var", WindowToken(window_size)>>,
                          "add_rolling_stats",
                          LAMBDA v : rolling_stat("var", v, window_size, min_samples)))

StatNames == {"std", "var"}

\* polars rolling_* argument checks, made by the library: window_size and
\* min_samples are unsigned, and min_samples may not exceed window_size.
RollingArgsError(window_size, min_samples) ==
    IF window_size < 0 \/ min_samples < 0 THEN "OverflowError"
    ELSE IF min_samples > window_size THEN "InvalidOperationError"
    ELSE "none"

\* stats is a sequence of names, or <<"None">> for the default argument None.
add_rolling_stats(t, window_size, min_samples, stats_arg) ==
    LET stats == IF stats_arg = <<"None">> THEN <<"std", "var">> ELSE stats_arg
        lib == RollingArgsError(window_size, min_samples)
    IN  IF stats = <<>> THEN Raise("ValueError")
        ELSE IF ~(SeqRange(stats) \subseteq StatNames) THEN Raise("ValueError")
        ELSE IF lib # "none" /\ _get_base_columns(t) # <<>> THEN Raise(lib)
        ELSE LET r1 == IF "std" \in SeqRange(stats)
                       THEN _add_rolling_std(t, window_size, min_samples) ELSE Ok(t)
             IN  IF r1.kind # "table" THEN r1
                 ELSE IF "var" \in SeqRange(stats)
                      THEN _add_rolling_var(r1.lf, window_size, min_samples) ELSE r1

\* An EWMA config is a dict: a function from its keys to values; a value is a
\* rational, or Term("str", ...) for a non-numeric value.
EwmaParams == {"alpha", "span", "half_life"}

ProvidedParams(config) == DOMAIN config \cap EwmaParams

EwmaConfigValid(config) ==
    /\ Cardinality(ProvidedParams(config)) = 1
    /\ LET param_name == CHOOSE p \in ProvidedParams(config) : TRUE
           param_value == config[param_name]
       IN  /\ IsNum(param_value)
           /\ ~(param_name = "alpha"
                  /\ ~(0 < param_value.n /\ param_value.n <= param_value.d))
           /\ ~(param_name = "span" /\ param_value.n < param_value.d)
           /\ ~(param_name = "half_life" /\ param_value.n <= 0)

_validate_ewma_configs(ewma_configs) ==
    \A k \in 1..Len(ewma_configs) : EwmaConfigValid(ewma_configs[k])

\* f"{param_value}" of the numbers used in the configurations.
FormatNumber(v) ==
    IF v.d = 1 THEN ToString(v.n)
    ELSE IF v.d = 2 /\ v.n = 1 THEN "0.5"
    ELSE IF v.d = 10 /\ v.n = 1 THEN "0.1"
    ELSE ToString(v.n) \o "/" \o ToString(v.d)

EwmaSuffix(param_name, param_value) ==
    IF param_name = "alpha" THEN <<"ewma", "alpha", FormatNumber(param_value)>>
    ELSE IF param_name = "span" THEN <<"ewma", "span", FormatNumber(param_value)>>
    ELSE <<"ewma", "hl", FormatNumber(param_value)>>

exponential_weighted_moving_average(t, ewma_configs) ==
    IF ~_validate_ewma_configs(ewma_configs) THEN Raise("ValueError")
    ELSE LET base == _get_base_columns(t)
             all_expressions ==
                 Flatten([k \in 1..Len(ewma_configs) |->
                     LET config == ewma_configs[k]
                         param_name == CHOOSE p \in ProvidedParams(config) : TRUE
                         param_value == config[param_name]
                     IN  Exprs(t, base, EwmaSuffix(param_name, param_value),
                               "exponential_weighted_moving_average",
                               LAMBDA v : ewm_mean(v, param_name, param_value))])
         IN  with_columns(t, all_expressions)

(***************************** null tracker ********************************)
IsNullInt8(vals) == [i \in 1..Len(vals) |-> IF IsNull(vals[i]) THEN Int8(1) ELSE Int8(0)]

track_nulls_AllColumns(t) ==
    with_columns(t, Exprs(t, Names(t), <<"was", "null">>, "track_nulls", IsNullInt8))

track_nulls(t) ==
    LET cols == SelectSeq(Names(t), LAMBDA col : col # DateName)
    IN  with_columns(t, Exprs(t, cols, <<"was", "null">>, "track_nulls", IsNullInt8))

\* polars drop_nulls: the rows without a null in any column.
KeepRows(t) == SelectSeq([i \in 1..Height(t) |-> i],
                         LAMBDA i : \A c \in 1..Len(t) : ~IsNull(t[c].vals[i]))

drop_nulls(t) ==
    LET keep == KeepRows(t)
    IN  [c \in 1..Len(t) |->
            [t[c] EXCEPT !.vals = [k \in 1..Len(keep) |-> t[c].vals[keep[k]]]]]

(***************************** gap filler **********************************)
LastNonNullAtOrBefore(vals, i) ==
    LET S == {j \in 1..i : ~IsNull(vals[j])}
    IN  IF S = {} THEN 0 ELSE CHOOSE j \in S : \A k \in S : k <= j

FirstNonNullAtOrAfter(vals, i) ==
    LET S == {j \in i..Len(vals) : ~IsNull(vals[j])}
    IN  IF S = {} THEN 0 ELSE CHOOSE j \in S : \A k \in S : j <= k

FillForward(vals) ==
    [i \in 1..Len(vals) |->
        LET p == LastNonNullAtOrBefore(vals, i) IN IF p = 0 THEN Null ELSE vals[p]]

FillBackward(vals) ==
    [i \in 1..Len(vals) |->
        LET q == FirstNonNullAtOrAfter(vals, i) IN IF q = 0 THEN Null ELSE vals[q]]

\* polars interpolate: nulls between two non-null neighbours are filled on
\* the straight line between them, by row position; others stay null.
FillLinear(vals) ==
    [i \in 1..Len(vals) |->
        LET p == LastNonNullAtOrBefore(vals, i)
            q == FirstNonNullAtOrAfter(vals, i)
        IN  IF p = 0 \/ q = 0 THEN Null
            ELSE IF p = i THEN vals[i]
            ELSE IF IsNum(vals[p]) /\ IsNum(vals[q])
                 THEN RatAdd(vals[p],
                             RatMul(RatSub(vals[q], vals[p]), Rat(i - p, q - p)))
                 ELSE Term("lerp", i - p, q - p, <<vals[p], vals[q]>>)]

MapColumns(t, F(_)) == [c \in 1..Len(t) |-> [t[c] EXCEPT !.vals = F(t[c].vals)]]

_fill_forward(t) == Ok(MapColumns(t, FillForward))
_fill_backward(t) == Ok(MapColumns(t, FillBackward))
_fill_linear(t) == Ok(MapColumns(t, FillLinear))
\* The four stubs have the body `pass`: they return None.
_fill_cubic_spline(t) == ReturnsNone
_fill_b_spline(t) == ReturnsNone
_fill_chebyshev(t) == ReturnsNone
_fill_radial_basis_function(t) == ReturnsNone

interpolate_data(t, interpolation_type) ==
    CASE interpolation_type = "ffill" -> _fill_forward(t)
      [] interpolation_type = "bfill" -> _fill_backward(t)
      [] interpolation_type = "linear" -> _fill_linear(t)
      [] interpolation_type = "cubic_spline" -> _fill_cubic_spline(t)
      [] interpolation_type = "b_spline" -> _fill_b_spline(t)
      [] interpolation_type = "Chebyshev" -> _fill_chebyshev(t)
      [] interpolation_type = "radial_basis_function" -> _fill_radial_basis_function(t)
      [] OTHER -> Raise("ValueError")

(***************************** numeric cell parser *************************)
\* A text is a sequence of one-character strings; NoText is a null cell.
\* A parsed Float64 is Float(m, e), the decimal m * 10^e with m free of
\* trailing zeros, or Null.
NoText == <<"<null>">>

DigitChars == <<"0", "1", "2", "3", "4", "5", "6", "7", "8", "9">>
IsDigit(c) == \E k \in 1..10 : DigitChars[k] = c
DigitVal(c) == (CHOOSE k \in 1..10 : DigitChars[k] = c) - 1

RECURSIVE Normalize(_, _)
Normalize(m, e) ==
    IF m = 0 THEN [op |-> "float", n |-> 0, d |-> 0, args |-> <<>>]
    ELSE IF m % 10 = 0 THEN Normalize(m \div 10, e + 1)
    ELSE [op |-> "float", n |-> m, d |-> e, args |-> <<>>]

Float(m, e) == Normalize(m, e)

RECURSIVE DigitsValue(_)
DigitsValue(ds) ==
    IF ds = <<>> THEN 0
    ELSE 10 * DigitsValue(SubSeq(ds, 1, Len(ds) - 1)) + DigitVal(ds[Len(ds)])

\* str.replace_all(ch, "")
replace_all(text, ch) == SelectSeq(text, LAMBDA c : c # ch)

\* The length of the run of digits of text starting at position i.
RECURSIVE DigitRun(_, _)
DigitRun(text, i) ==
    IF i <= Len(text) /\ IsDigit(text[i]) THEN 1 + DigitRun(text, i + 1) ELSE 0

\* str.extract(r"^(-?\d*\.?\d+)", 1): leftmost-first matching. After the
\* optional minus the greedy \d* takes the whole digit run; if a dot and at
\* least one digit follow, they are taken too; otherwise \d* gives one digit
\* back to \d+ and the match is the digit run. The result is the list
\* <<sign, integer digits, fraction digits>>, or <<>> when nothing matches.
ExtractNumericPart(text) ==
    LET neg == Len(text) >= 1 /\ text[1] = "-"
        k == IF neg THEN 2 ELSE 1
        a == DigitRun(text, k)
        dot == k + a <= Len(text) /\ text[k + a] = "."
        b == IF dot THEN DigitRun(text, k + a + 1) ELSE 0
    IN  IF b >= 1
        THEN <<IF neg THEN -1 ELSE 1, SubSeq(text, k, k + a - 1),
               SubSeq(text, k + a + 1, k + a + b)>>
        ELSE IF a >= 1
        THEN <<IF neg THEN -1 ELSE 1, SubSeq(text, k, k + a - 1), <<>>>>
        ELSE <<>>

SuffixChars == {"K", "M", "B", "T"}

\* str.extract(r"([KMBT])$", 1)
ExtractSuffix(text) ==
    IF text # <<>> /\ text[Len(text)] \in SuffixChars THEN text[Len(text)] ELSE ""

\* suffix_map, as powers of ten.
SuffixExponent(ch) ==
    CASE ch = "K" -> 3 [] ch = "M" -> 6 [] ch = "B" -> 9 [] ch = "T" -> 12 [] OTHER -> 0

PartValue(part) == Float(part[1] * DigitsValue(part[2] \o part[3]), -Len(part[3]))

Scale(v, k) == Float(v.n, v.d + k)

\* cast(pl.Float64, strict=False) of a text: a signed decimal with at least
\* one digit is its value, anything else is null.
CastFloat(text) ==
    LET signed == Len(text) >= 1 /\ text[1] \in {"-", "+"}
        k == IF signed THEN 2 ELSE 1
        a == DigitRun(text, k)
        dot == k + a <= Len(text) /\ text[k + a] = "."
        b == IF dot THEN DigitRun(text, k + a + 1) ELSE 0
        len == (k - 1) + a + (IF dot THEN 1 + b ELSE 0)
        sign == IF signed /\ text[1] = "-" THEN -1 ELSE 1
    IN  IF len = Len(text) /\ a + b >= 1
        THEN Float(sign * DigitsValue(SubSeq(text, k, k + a - 1)
                                      \o SubSeq(text, k + a + 1, k + a + b)), -b)
        ELSE Null

CleanText_KeepPercent(text) == replace_all(text, ",")

CleanText(text) == replace_all(replace_all(text, ","), "%")

\* final_col_expr of one numeric column, on one cell (load.py lines 64-100).
ParseCell(text) ==
    IF text = NoText THEN Null
    ELSE LET cleaned == CleanText(text)
             numeric_part == ExtractNumericPart(cleaned)
             suffix_char == ExtractSuffix(cleaned)
         IN  IF suffix_char # "" /\ numeric_part # <<>>
             THEN Scale(PartValue(numeric_part), SuffixExponent(suffix_char))
             ELSE CastFloat(cleaned)


(***************************** series loader ******************************)
\* A date text is <<month, day, year>> as written in MM/DD/YYYY, or <<>> for
\* a text of another shape. A parsed date is a day key that orders dates as
\* the calendar does (366 keys per year, counted from 2020), or Null.
IsLeapYear(y) == y % 4 = 0 /\ (y % 100 # 0 \/ y % 400 = 0)

DaysInMonth(m, y) ==
    IF m = 2 THEN (IF IsLeapYear(y) THEN 29 ELSE 28)
    ELSE IF m \in {4, 6, 9, 11} THEN 30 ELSE 31

RECURSIVE DaysBefore(_, _)
DaysBefore(m, y) == IF m <= 1 THEN 0 ELSE DaysInMonth(m - 1, y) + DaysBefore(m - 1, y)

\* str.to_datetime(format="%m/%d/%Y", strict=False)
to_datetime(text) ==
    IF /\ Len(text) = 3
       /\ text[1] \in 1..12
       /\ text[2] \in 1..DaysInMonth(text[1], text[3])
    THEN Rat(366 * (text[3] - 2020) + DaysBefore(text[1], text[3]) + text[2], 1)
    ELSE Null

\* A CSV row is [Date, Price]; a file is a sequence of rows.
\* pl.concat(lfs, how="vertical_relaxed")
concat(fs) == Flatten(fs)

unique_keep_last(rows) ==
    SelectSeq(rows, LAMBDA r : \A j \in (r.idx + 1)..Len(rows) : rows[j].Date # r.Date)

\* unique(subset=["Date"], keep="first", maintain_order=True): a row stays
\* iff no earlier row has the same Date (null equals null).
unique_keep_first(rows) ==
    SelectSeq(rows, LAMBDA r : \A j \in 1..(r.idx - 1) : rows[j].Date # r.Date)

\* The order of sort("Date"): nulls first, then ascending.
DateLE(a, b) == IsNull(a) \/ (~IsNull(b) /\ a.n <= b.n)

\* sort("Date") of rows with distinct dates.
RECURSIVE sort_by_date(_)
sort_by_date(rows) ==
    IF rows = <<>> THEN <<>>
    ELSE LET i == CHOOSE i \in 1..Len(rows) :
                      \A j \in 1..Len(rows) : DateLE(rows[i].Date, rows[j].Date)
             rest == [k \in 1..(Len(rows) - 1) |-> IF k < i THEN rows[k] ELSE rows[k + 1]]
         IN  <<rows[i]>> \o sort_by_date(rest)

\* _futures_readin_bind: the result rows are [Date, Price, idx], idx being
\* the row's position in the concatenation.
_futures_readin_bind(fs) ==
    IF fs = <<>> THEN Raise("ValueError")
    ELSE LET concat_lf == concat(fs)
             dated == [i \in 1..Len(concat_lf) |->
                          [Date |-> to_datetime(concat_lf[i].Date),
                           Price |-> concat_lf[i].Price, idx |-> i]]
             uniq == unique_keep_first(dated)
             typed == [i \in 1..Len(uniq) |->
                          [uniq[i] EXCEPT !.Price = ParseCell(uniq[i].Price)]]
         IN  Ok(sort_by_date(typed))


(***************************** calendar aligner ****************************)
\* The dict `data` is a sequence of entries [name, lf] in insertion order;
\* name is the instrument's name as a token list.
HasDate(t) == DateName \in NameSet(t)

_validate_lazyframes(d) ==
    IF d = <<>> THEN Raise("ValueError")
    ELSE IF \E k \in 1..Len(d) : ~HasDate(d[k].lf) THEN Raise("ValueError")
    ELSE Ok(d)

\* pl.min("Date") / pl.max("Date"): over the non-null dates, None if none.
DateDays(t) == {v.n : v \in {w \in SeqRange(ColOf(t, DateName).vals) : ~IsNull(w)}}

SetMin(S) == CHOOSE x \in S : \A y \in S : x <= y
SetMax(S) == CHOOSE x \in S : \A y \in S : y <= x

_determine_master_date_range_NoRaise(valid) ==
    LET days == UNION {DateDays(valid[k].lf) : k \in 1..Len(valid)}
    IN  Ok(<<Col(DateName,
                 IF days = {} THEN <<>>
                 ELSE [i \in 1..(SetMax(days) - SetMin(days) + 1) |->
                          Rat(SetMin(days) + i - 1, 1)],
                 <<>>, "calendar")>>)

_determine_master_date_range(valid) ==
    LET with_dates == {k \in 1..Len(valid) : DateDays(valid[k].lf) # {}}
        all_min_dates == {SetMin(DateDays(valid[k].lf)) : k \in with_dates}
        all_max_dates == {SetMax(DateDays(valid[k].lf)) : k \in with_dates}
    IN  IF all_min_dates = {} \/ all_max_dates = {} THEN Raise("ValueError")
        ELSE LET overall_min_date == SetMin(all_min_dates)
                 overall_max_date == SetMax(all_max_dates)
             IN  Ok(<<Col(DateName,
                          [i \in 1..(overall_max_date - overall_min_date + 1) |->
                              Rat(overall_min_date + i - 1, 1)],
                          <<>>, "calendar")>>)

InnerJoinPairs(left, right) ==
    LET ld == ColOf(left, DateName).vals
        rd == ColOf(right, DateName).vals
    IN  Flatten([i \in 1..Len(ld) |->
            LET ms == SelectSeq([j \in 1..Len(rd) |-> j],
                                LAMBDA j : ~IsNull(ld[i]) /\ rd[j] = ld[i])
            IN  [m \in 1..Len(ms) |-> <<i, ms[m]>>]])

\* The row pairs of a left join on Date: every left row in order, once per
\* right row with the same non-null Date, or once with no partner (0).
LeftJoinPairs(left, right) ==
    LET ld == ColOf(left, DateName).vals
        rd == ColOf(right, DateName).vals
        MatchesOf(i) == SelectSeq([j \in 1..Len(rd) |-> j],
                                  LAMBDA j : ~IsNull(ld[i]) /\ rd[j] = ld[i])
    IN  Flatten([i \in 1..Len(ld) |->
            IF MatchesOf(i) = <<>> THEN <<<<i, 0>>>>
            ELSE [m \in 1..Len(MatchesOf(i)) |-> <<i, MatchesOf(i)[m]>>]])

\* result_lf.join(lf_to_join, on="Date", how="left"): a right column whose
\* name is already taken gets the suffix _right.
join_left(left, right) ==
    LET pairs == LeftJoinPairs(left, right)
        rcols == SelectSeq(right, LAMBDA c : c.name # DateName)
        lpart == [c \in 1..Len(left) |->
                     [left[c] EXCEPT !.vals = [k \in 1..Len(pairs) |-> left[c].vals[pairs[k][1]]]]]
        rpart == [c \in 1..Len(rcols) |->
                     [rcols[c] EXCEPT
                        !.name = IF rcols[c].name \in NameSet(left)
                                 THEN rcols[c].name \o <<"right">> ELSE rcols[c].name,
                        !.vals = [k \in 1..Len(pairs) |->
                                     IF pairs[k][2] = 0 THEN Null
                                     ELSE rcols[c].vals[pairs[k][2]]]]]
    IN  IF HasDuplicateAlias(lpart \o rpart) THEN Raise("DuplicateError")
        ELSE Ok(lpart \o rpart)

\* current_lf.select([Date] + [pl.col(c).alias(f"{name}_{c}") ...])
SelectPrefixed(name, t) ==
    <<ColOf(t, DateName)>> \o
    [c \in 1..Len(SelectSeq(t, LAMBDA x : x.name # DateName)) |->
        LET col == SelectSeq(t, LAMBDA x : x.name # DateName)[c]
        IN  [col EXCEPT !.name = name \o col.name]]

RECURSIVE _join_lazyframes(_, _)
_join_lazyframes(valid, result_lf) ==
    IF valid = <<>> THEN Ok(result_lf)
    ELSE LET r == join_left(result_lf, SelectPrefixed(Head(valid).name, Head(valid).lf))
         IN  IF r.kind # "table" THEN r ELSE _join_lazyframes(Tail(valid), r.lf)

concat_all_data(d) ==
    LET v == _validate_lazyframes(d)
    IN  IF v.kind = "raise" THEN v
        ELSE LET master_lf == _determine_master_date_range(d)
             IN  IF master_lf.kind = "raise" THEN master_lf
                 ELSE _join_lazyframes(d, master_lf.lf)


(***************************** inputs **************************************)
CellValues == {Null} \cup {Rat(v, 1) : v \in 1..MaxVal}

DateColumn(rows) == Col(DateName, [i \in 1..rows |-> Rat(i, 1)], <<>>, "calendar")

\* An aligned table of one instrument: Date and gold_Price.
AlignedTables ==
    {<<DateColumn(MaxRows), Col(<<"gold", "Price">>, v, <<>>, "raw")>> :
        v \in [1..MaxRows -> CellValues]}

Strategies ==
    {"ffill", "bfill", "linear", "cubic_spline", "b_spline", "Chebyshev",
     "chebyshev", "radial_basis_function", "None", "none"}

MaConfigLists ==
    {<<>>} \cup {<<<<w, ms>>>> : w \in 0..MaxWindow, ms \in 0..MaxWindow}
           \cup {<<<<1, 1>>, <<MaxWindow, 1>>>>}

EwmaConfigLists ==
    {<<>>,
     <<("alpha" :> Rat(1, 2))>>,
     <<("span" :> Rat(3, 1))>>,
     <<("half_life" :> Rat(1, 1))>>,
     <<("alpha" :> Rat(2, 1))>>,
     <<("span" :> Term("str", 0, 1, <<>>))>>,
     <<("alpha" :> Rat(1, 2)) @@ ("span" :> Rat(3, 1))>>,
     <<("adjust" :> Rat(1, 1))>>}

ReturnTypeLists ==
    {<<>>, <<"percent">>, <<"log">>, <<"percent", "log">>, <<"log", "percent">>,
     <<"simple">>}

StatLists == {<<"None">>, <<>>, <<"std">>, <<"var">>, <<"std", "var">>, <<"mean">>}

(***************************** Spec: the process.py API ********************)
Init ==
    /\ lf \in AlignedTables
    /\ prev = lf
    /\ out = Ok(lf)
    /\ call = [op |-> "none", arg |-> <<>>]
    /\ nops = 0
    /\ cell = NoText /\ parsed = Pending
    /\ files = <<>> /\ series = NotLoaded
    /\ data = <<>> /\ aligned = NotLoaded
    /\ pipe = NoRun /\ scen = NoRun

\* A call of `op` with `arg` whose outcome is r: the caller keeps its table
\* unless the call returned one.
Called(op, arg, r) ==
    /\ nops < MaxOps
    /\ nops' = nops + 1
    /\ call' = [op |-> op, arg |-> arg]
    /\ prev' = lf
    /\ out' = r
    /\ lf' = IF r.kind = "table" THEN r.lf ELSE lf
    /\ UNCHANGED <<parseVars, loadVars, alignVars, pipe, scen>>

TrackNulls == Called("track_nulls", <<>>, track_nulls(lf))

InterpolateData ==
    \E s \in Strategies : Called("interpolate_data", s, interpolate_data(lf, s))

MovingAverage ==
    \E c \in MaConfigLists : Called("moving_average", c, moving_average(lf, c))

Ewma ==
    \E c \in EwmaConfigLists :
        Called("exponential_weighted_moving_average", c,
               exponential_weighted_moving_average(lf, c))

AddReturns ==
    \E r \in ReturnTypeLists : Called("add_returns", r, add_returns(lf, r))

AddRollingStats ==
    \E w \in 1..MaxWindow, ms \in 1..MaxWindow, st \in StatLists :
        Called("add_rolling_stats", <<w, ms, st>>, add_rolling_stats(lf, w, ms, st))

Next ==
    \/ TrackNulls
    \/ InterpolateData
    \/ MovingAverage
    \/ Ewma
    \/ AddReturns
    \/ AddRollingStats

Spec == Init /\ [][Next]_vars

(***************************** SpecParse: one numeric cell *****************)
Alphabet == {"1", "2", ".", "-", ",", "%", "K", "M", "a"}

ExampleTexts ==
    {<<"1", ",", "2", "3", "4">>, <<"5", "%">>, <<"1", ".", "2", "K">>, <<"2", "M">>,
     <<>>, <<"a", "b", "c">>, <<"3", "B">>, <<"-", ".", "5", "T">>, NoText}

CellTexts == UNION {[1..n -> Alphabet] : n \in 0..MaxLen} \cup ExampleTexts

InitParse ==
    /\ cell \in CellTexts
    /\ parsed = Pending
    /\ lf = <<>> /\ prev = <<>> /\ out = Ok(<<>>)
    /\ call = [op |-> "none", arg |-> <<>>] /\ nops = 0
    /\ files = <<>> /\ series = NotLoaded
    /\ data = <<>> /\ aligned = NotLoaded
    /\ pipe = NoRun /\ scen = NoRun

ParseColumn ==
    /\ parsed = Pending
    /\ parsed' = ParseCell(cell)
    /\ UNCHANGED <<cell, procVars, loadVars, alignVars, pipe, scen>>

NextParse == ParseColumn

SpecParse == InitParse /\ [][NextParse]_vars

(***************************** SpecLoad: one instrument's files ************)
DateTexts == {<<1, 2, 2020>>, <<12, 31, 2019>>, <<2, 29, 2019>>}

PriceTexts == {<<"1">>, <<"2", "K">>, <<"x">>}

CsvRows == [Date : DateTexts, Price : PriceTexts]

RowLists == UNION {[1..n -> CsvRows] : n \in 0..MaxLoadRows}

\* The rows in one file, or split over two files at any point, or no file.
FileLists ==
    {<<>>} \cup {<<rows>> : rows \in RowLists}
           \cup UNION {{<<SubSeq(rows, 1, k), SubSeq(rows, k + 1, Len(rows))>> :
                            k \in 0..Len(rows)} : rows \in RowLists}

InitLoad ==
    /\ files \in FileLists
    /\ series = NotLoaded
    /\ cell = NoText /\ parsed = Pending
    /\ lf = <<>> /\ prev = <<>> /\ out = Ok(<<>>)
    /\ call = [op |-> "none", arg |-> <<>>] /\ nops = 0
    /\ data = <<>> /\ aligned = NotLoaded
    /\ pipe = NoRun /\ scen = NoRun

ReadinBind ==
    /\ series = NotLoaded
    /\ series' = _futures_readin_bind(files)
    /\ UNCHANGED <<files, procVars, parseVars, alignVars, pipe, scen>>

NextLoad == ReadinBind

SpecLoad == InitLoad /\ [][NextLoad]_vars


(***************************** SpecAlign: concat_all_data ******************)
InstrumentNames == <<<<"gold">>, <<"oil">>>>

\* The price instrument k quotes on day d.
PriceOn(k, d) == Rat(10 * k + d, 1)

RECURSIVE SetToSortedSeq(_)
SetToSortedSeq(S) ==
    IF S = {} THEN <<>> ELSE <<SetMin(S)>> \o SetToSortedSeq(S \ {SetMin(S)})

\* An Instrument Series as the loader leaves it: dates unique and ascending,
\* a row with an unparseable (null) date first if there is one.
InstrumentSeries(k, days, null_row) ==
    LET ds == (IF null_row THEN <<Null>> ELSE <<>>)
              \o [i \in 1..Cardinality(days) |-> Rat(SetToSortedSeq(days)[i], 1)]
    IN  <<Col(DateName, ds, <<>>, "raw"),
          Col(<<"Price">>, [i \in 1..Len(ds) |->
                               IF IsNull(ds[i]) THEN PriceOn(k, 0) ELSE PriceOn(k, ds[i].n)],
              <<>>, "raw")>>

\* A table without a Date column.
Undated(k) == <<Col(<<"Price">>, <<PriceOn(k, 1)>>, <<>>, "raw")>>

SeriesOf(k) ==
    {Undated(k)} \cup
    {InstrumentSeries(k, days, nr) : days \in SUBSET (1..MaxDay), nr \in BOOLEAN}

Collections ==
    {<<>>}
    \cup {<<[name |-> InstrumentNames[1], lf |-> t]>> : t \in SeriesOf(1)}
    \cup {<<[name |-> InstrumentNames[1], lf |-> t1],
            [name |-> InstrumentNames[2], lf |-> t2]>> :
             t1 \in SeriesOf(1), t2 \in SeriesOf(2)}

InitAlign ==
    /\ data \in Collections
    /\ aligned = NotLoaded
    /\ cell = NoText /\ parsed = Pending
    /\ files = <<>> /\ series = NotLoaded
    /\ lf = <<>> /\ prev = <<>> /\ out = Ok(<<>>)
    /\ call = [op |-> "none", arg |-> <<>>] /\ nops = 0
    /\ pipe = NoRun /\ scen = NoRun

ConcatAllData ==
    /\ aligned = NotLoaded
    /\ aligned' = concat_all_data(data)
    /\ UNCHANGED <<data, procVars, parseVars, loadVars, pipe, scen>>

NextAlign == ConcatAllData

SpecAlign == InitAlign /\ [][NextAlign]_vars


(***************************** SpecPipeline: run_data_pipeline *************)
\* The defaults of data_pipeline.py lines 29-49; an argument is Given(v) or
\* left at None.
DefaultMaConfigs == <<<<20, 1>>, <<50, 1>>, <<200, 1>>, <<365, 1>>, <<2 * 365, 1>>>>
DefaultReturnsFeatures == <<"percent", "log">>
DefaultRollingVarFeatures ==
    <<[window_size |-> 20, stats |-> <<"std", "var">>],
      [window_size |-> 50, stats |-> <<"std", "var">>],
      [window_size |-> 200, stats |-> <<"std", "var">>],
      [window_size |-> 365, stats |-> <<"std", "var">>],
      [window_size |-> 2 * 365, stats |-> <<"std", "var">>]>>
DefaultEwmaConfigs ==
    <<("alpha" :> Rat(1, 10)), ("span" :> Rat(20, 1)), ("half_life" :> Rat(10, 1))>>

Given(v) == [given |-> TRUE, v |-> v]
NotGiven == [given |-> FALSE, v |-> <<>>]
OrDefault(arg, default) == IF arg.given THEN arg.v ELSE default

FeatureArguments ==
    {[ma_configs |-> NotGiven, ewma_configs |-> NotGiven,
      returns_features |-> NotGiven, rolling_var_features |-> NotGiven],
     [ma_configs |-> Given(<<<<MaxWindow, 1>>>>), ewma_configs |-> Given(<<>>),
      returns_features |-> Given(<<"percent">>),
      rolling_var_features |->
          Given(<<[window_size |-> MaxWindow, stats |-> <<"std">>]>>)],
     [ma_configs |-> Given(<<>>), ewma_configs |-> Given(<<("alpha" :> Rat(1, 2))>>),
      returns_features |-> Given(<<"log">>), rolling_var_features |-> Given(<<>>)],
     [ma_configs |-> Given(<<<<1, MaxWindow + 1>>>>), ewma_configs |-> Given(<<>>),
      returns_features |-> Given(<<>>), rolling_var_features |-> NotGiven]}

PipelineArguments ==
    [interpolation_type : Strategies, track_nans : BOOLEAN, drop_nulls : BOOLEAN,
     features : FeatureArguments]

\* What load_commodity_futures_by_folder returns: gold and oil, each with
\* rows on some days, or only gold, or a folder without instruments.
FolderContents ==
    {<<>>}
    \cup {<<[name |-> InstrumentNames[1], lf |-> InstrumentSeries(1, days, FALSE)]>> :
             days \in SUBSET (1..MaxDay) \ {{}}}
    \cup {<<[name |-> InstrumentNames[1], lf |-> InstrumentSeries(1, d1, FALSE)],
            [name |-> InstrumentNames[2], lf |-> InstrumentSeries(2, d2, FALSE)]>> :
             d1 \in SUBSET (1..MaxDay) \ {{}}, d2 \in SUBSET (1..MaxDay) \ {{}}}

InitPipeline ==
    /\ \E a \in PipelineArguments, d \in FolderContents :
          pipe = [pc |-> "load", args |-> a, err |-> "none", lf_dict |-> d,
                  full_data |-> <<>>, null_data |-> <<>>, track_data |-> <<>>,
                  interpolated_data |-> <<>>, ma_data |-> <<>>, returns_data |-> <<>>,
                  var_data |-> <<>>, is_none |-> FALSE]
    /\ scen = NoRun
    /\ data = <<>> /\ aligned = NotLoaded
    /\ cell = NoText /\ parsed = Pending
    /\ files = <<>> /\ series = NotLoaded
    /\ lf = <<>> /\ prev = <<>> /\ out = Ok(<<>>)
    /\ call = [op |-> "none", arg |-> <<>>] /\ nops = 0

OtherThanPipe == <<procVars, parseVars, loadVars, alignVars, scen>>

Fail(e) == pipe' = [pipe EXCEPT !.pc = "failed", !.err = e]

\* Line 53: full_data = load.concat_all_data(lf_dict)
PipeConcat ==
    /\ pipe.pc = "load"
    /\ LET r == concat_all_data(pipe.lf_dict)
       IN  IF r.kind = "raise" THEN Fail(r.err)
           ELSE pipe' = [pipe EXCEPT !.pc = "drop", !.full_data = r.lf]
    /\ UNCHANGED OtherThanPipe

\* Line 54: null_data = full_data.drop_nulls() if drop_nulls else full_data
PipeDropNulls ==
    /\ pipe.pc = "drop"
    /\ pipe' = [pipe EXCEPT !.pc = "track",
                  !.null_data = IF pipe.args.drop_nulls THEN drop_nulls(pipe.full_data)
                                ELSE pipe.full_data]
    /\ UNCHANGED OtherThanPipe

TrackStage_AfterFill(full_data, null_data, args) ==
    IF args.track_nans THEN track_nulls(MapColumns(full_data, FillForward))
    ELSE Ok(null_data)

\* Line 55: track_data = process.track_nulls(full_data) if track_nans else null_data
TrackStage(full_data, null_data, args) ==
    IF args.track_nans THEN track_nulls(full_data) ELSE Ok(null_data)

PipeTrackNulls ==
    /\ pipe.pc = "track"
    /\ LET r == TrackStage(pipe.full_data, pipe.null_data, pipe.args)
       IN  IF r.kind = "raise" THEN Fail(r.err)
           ELSE pipe' = [pipe EXCEPT !.pc = "interpolate", !.track_data = r.lf]
    /\ UNCHANGED OtherThanPipe

\* Lines 56-60: the Gap Filler, skipped for "None".
InterpolateStage(track_data, interpolation_type) ==
    IF interpolation_type # "None" THEN interpolate_data(track_data, interpolation_type)
    ELSE Ok(track_data)

PipeInterpolate ==
    /\ pipe.pc = "interpolate"
    /\ LET r == InterpolateStage(pipe.track_data, pipe.args.interpolation_type)
       IN  IF r.kind = "raise" THEN Fail(r.err)
           ELSE pipe' = [pipe EXCEPT !.pc = "ma", !.interpolated_data = r.lf,
                                     !.ma_data = r.lf, !.is_none = (r.kind = "None")]
    /\ UNCHANGED OtherThanPipe

\* Lines 61-63: a stage given None fails on its first attribute access.
PipeMovingAverage ==
    /\ pipe.pc = "ma"
    /\ LET ma_configs == OrDefault(pipe.args.features.ma_configs, DefaultMaConfigs)
           r == IF ma_configs = <<>> THEN Ok(pipe.ma_data)
                ELSE IF pipe.is_none THEN Raise("AttributeError")
                ELSE moving_average(pipe.ma_data, ma_configs)
       IN  IF r.kind = "raise" THEN Fail(r.err)
           ELSE pipe' = [pipe EXCEPT !.pc = "ewma", !.ma_data = r.lf]
    /\ UNCHANGED OtherThanPipe

\* Lines 64-67
PipeEwma ==
    /\ pipe.pc = "ewma"
    /\ LET ewma_configs == OrDefault(pipe.args.features.ewma_configs, DefaultEwmaConfigs)
           r == IF ewma_configs = <<>> THEN Ok(pipe.ma_data)
                ELSE IF pipe.is_none THEN Raise("AttributeError")
                ELSE exponential_weighted_moving_average(pipe.ma_data, ewma_configs)
       IN  IF r.kind = "raise" THEN Fail(r.err)
           ELSE pipe' = [pipe EXCEPT !.pc = "returns", !.ma_data = r.lf]
    /\ UNCHANGED OtherThanPipe

\* Line 68: add_returns validates its list before it touches the table.
PipeReturns ==
    /\ pipe.pc = "returns"
    /\ LET returns_features ==
               OrDefault(pipe.args.features.returns_features, DefaultReturnsFeatures)
           r == IF pipe.is_none /\ add_returns(<<>>, returns_features).kind # "raise"
                THEN Raise("AttributeError")
                ELSE add_returns(pipe.ma_data, returns_features)
       IN  IF r.kind = "raise" THEN Fail(r.err)
           ELSE pipe' = [pipe EXCEPT !.pc = "rolling", !.returns_data = r.lf]
    /\ UNCHANGED OtherThanPipe

\* Line 69: add_rolling_stats(returns_data, rolling_var_features): the whole
\* list is passed as window_size, min_samples and stats keep their defaults;
\* polars rejects a list as a window size when the first rolling expression
\* is built, that is, when there is a base column.
RollingStage(returns_data, rolling_var_features) ==
    IF _get_base_columns(returns_data) # <<>> THEN Raise("TypeError")
    ELSE Ok(returns_data)

PipeRollingStats ==
    /\ pipe.pc = "rolling"
    /\ LET rolling_var_features ==
               OrDefault(pipe.args.features.rolling_var_features, DefaultRollingVarFeatures)
           r == RollingStage(pipe.returns_data, rolling_var_features)
       IN  IF r.kind = "raise" THEN Fail(r.err)
           ELSE pipe' = [pipe EXCEPT !.pc = "done", !.var_data = r.lf]
    /\ UNCHANGED OtherThanPipe

NextPipeline ==
    \/ PipeConcat
    \/ PipeDropNulls
    \/ PipeTrackNulls
    \/ PipeInterpolate
    \/ PipeMovingAverage
    \/ PipeEwma
    \/ PipeReturns
    \/ PipeRollingStats

SpecPipeline == InitPipeline /\ [][NextPipeline]_vars


(***************************** SpecScenario: gold and oil ******************)
\* Two instruments with a Price column and rows on the same five days, run
\* through concat_all_data, track_nulls, interpolate_data("ffill") and
\* moving_average([(2, 1)]).
ScenarioDates == 1..5

ScenarioSeries(vals) ==
    <<Col(DateName, [i \in ScenarioDates |-> Rat(i, 1)], <<>>, "raw"),
      Col(<<"Price">>, vals, <<>>, "raw")>>

InitScenario ==
    /\ \E g \in [ScenarioDates -> {Null, Rat(1, 1), Rat(2, 1)}],
          o \in [ScenarioDates -> {Null, Rat(3, 1)}] :
          scen = [pc |-> "align", err |-> "none", t |-> <<>>,
                  input |-> <<[name |-> InstrumentNames[1], lf |-> ScenarioSeries(g)],
                              [name |-> InstrumentNames[2], lf |-> ScenarioSeries(o)]>>]
    /\ pipe = NoRun
    /\ data = <<>> /\ aligned = NotLoaded
    /\ cell = NoText /\ parsed = Pending
    /\ files = <<>> /\ series = NotLoaded
    /\ lf = <<>> /\ prev = <<>> /\ out = Ok(<<>>)
    /\ call = [op |-> "none", arg |-> <<>>] /\ nops = 0

OtherThanScen == <<procVars, parseVars, loadVars, alignVars, pipe>>

ScenarioStep(from, to, r) ==
    /\ scen.pc = from
    /\ scen' = IF r.kind = "table" THEN [scen EXCEPT !.pc = to, !.t = r.lf]
               ELSE [scen EXCEPT !.pc = "failed", !.err = r.err]
    /\ UNCHANGED OtherThanScen

ScenAlign == ScenarioStep("align", "track", concat_all_data(scen.input))
ScenTrack == ScenarioStep("track", "fill", track_nulls(scen.t))
ScenFill == ScenarioStep("fill", "ma", interpolate_data(scen.t, "ffill"))
ScenMovingAverage == ScenarioStep("ma", "done", moving_average(scen.t, <<<<2, 1>>>>))

NextScenario ==
    \/ ScenAlign
    \/ ScenTrack
    \/ ScenFill
    \/ ScenMovingAverage

SpecScenario == InitScenario /\ [][NextScenario]_vars


(***************************** SpecFeature: one feature call ***************)
\* One call of moving_average, add_returns or add_rolling_stats on a table
\* that holds Date and raw price columns.
ExampleMaColumn == <<Rat(1, 1), Rat(2, 1), Null, Rat(4, 1), Rat(5, 1)>>
ExampleMaConfigs == <<<<3, 3>>>>
ExampleReturnColumn == <<Rat(100, 1), Rat(110, 1), Rat(99, 1)>>

Reversed(v) == [i \in 1..Len(v) |-> v[Len(v) + 1 - i]]

PriceTable(v) == <<DateColumn(Len(v)), Col(<<"gold", "Price">>, v, <<>>, "raw")>>

FeatureTables ==
    AlignedTables
    \cup {Append(t, Col(<<"oil", "Price">>, Reversed(t[2].vals), <<>>, "raw")) :
             t \in AlignedTables}
    \cup {PriceTable(ExampleMaColumn), PriceTable(ExampleReturnColumn)}

InitFeature ==
    /\ lf \in FeatureTables
    /\ prev = lf
    /\ out = Ok(lf)
    /\ call = [op |-> "none", arg |-> <<>>]
    /\ nops = 0
    /\ cell = NoText /\ parsed = Pending
    /\ files = <<>> /\ series = NotLoaded
    /\ data = <<>> /\ aligned = NotLoaded
    /\ pipe = NoRun /\ scen = NoRun

FeatMovingAverage ==
    /\ nops = 0
    /\ \E c \in MaConfigLists \cup {ExampleMaConfigs} :
          Called("moving_average", c, moving_average(lf, c))

FeatAddReturns ==
    /\ nops = 0
    /\ \E r \in ReturnTypeLists : Called("add_returns", r, add_returns(lf, r))

FeatAddRollingStats ==
    /\ nops = 0
    /\ \E w \in (-1)..MaxWindow, ms \in (-1)..MaxWindow, st \in StatLists :
          Called("add_rolling_stats", <<w, ms, st>>, add_rolling_stats(lf, w, ms, st))

NextFeature ==
    \/ FeatMovingAverage
    \/ FeatAddReturns
    \/ FeatAddRollingStats

SpecFeature == InitFeature /\ [][NextFeature]_vars

(***************************** claims under Spec **************************)
FeatureOps ==
    {"moving_average", "exponential_weighted_moving_average", "add_returns",
     "add_rolling_stats"}

\* A base column as the specification defines it: not Date, not a _was_null
\* indicator, and not a derived feature of any of the six kinds.
IsBaseName(name) ==
    /\ name # DateName
    /\ ~EndsWith(name, <<"was", "null">>)
    /\ ~HasInfix(name, <<"ma">>)
    /\ ~HasInfix(name, <<"ewma">>)
    /\ ~HasPart(name, <<"return">>)
    /\ ~HasPart(name, <<"log", "return">>)
    /\ ~HasInfix(name, <<"rolling", "std">>)
    /\ ~HasInfix(name, <<"rolling", "var">>)

\* C1: every column a Feature Deriver operation added was computed from a
\* base column; no derived column is the input of another feature.
C1_FeaturesReadOnlyBaseColumns ==
    \A i \in 1..Len(lf) : lf[i].by \in FeatureOps => IsBaseName(lf[i].src)

\* One valid call of each Feature Deriver operation.
ApplyFeature(op, t) ==
    CASE op = "moving_average" -> moving_average(t, <<<<MaxWindow, 1>>>>)
      [] op = "exponential_weighted_moving_average" ->
             exponential_weighted_moving_average(t, <<("alpha" :> Rat(1, 2))>>)
      [] op = "add_returns" -> add_returns(t, <<"percent", "log">>)
      [] op = "add_rolling_stats" -> add_rolling_stats(t, MaxWindow, 1, <<"std", "var">>)

ApplyBoth(a, b, t) ==
    LET r == ApplyFeature(a, t)
    IN  IF r.kind = "table" THEN ApplyFeature(b, r.lf) ELSE r

NamedValues(t) == {<<t[i].name, t[i].vals>> : i \in 1..Len(t)}

\* C2: any two Feature Deriver operations applied to the table in either
\* order yield the same set of column names with the same values.
C2_FeatureOpsOrderIndependent ==
    \A a, b \in FeatureOps :
        LET ab == ApplyBoth(a, b, lf)
            ba == ApplyBoth(b, a, lf)
        IN  /\ ab.kind = "table"
            /\ ba.kind = "table"
            /\ NamedValues(ab.lf) = NamedValues(ba.lf)

\* C4: the Gap Filler called with the no-op strategy "none" does not fail and
\* returns a table identical to the one it was given.
C4_NoneStrategyIsIdentity ==
    (call.op = "interpolate_data" /\ call.arg = "none")
        => (out.kind = "table" /\ out.lf = prev)

UnimplementedStrategies == {"cubic_spline", "b_spline", "chebyshev", "radial_basis_function"}

\* C5: the Gap Filler called with an unimplemented extension strategy fails
\* with a not-implemented error and returns nothing.
C5_StubsRaiseNotImplemented ==
    (call.op = "interpolate_data" /\ call.arg \in UnimplementedStrategies)
        => (out.kind = "raise" /\ out.err = "NotImplementedError")

(***************************** claims under SpecParse **********************)
\* The specification's reading of a cell text, stated without the regular
\* expressions of the source.
Stripped(text) == SelectSeq(text, LAMBDA c : c \notin {",", "%"})

\* A signed decimal numeral: an optional minus, digits, an optional point,
\* and at least one digit at the end.
IsNumeral(text) ==
    LET body == IF text # <<>> /\ text[1] = "-" THEN Tail(text) ELSE text
        points == {i \in 1..Len(body) : body[i] = "."}
    IN  /\ body # <<>>
        /\ \A i \in 1..Len(body) : IsDigit(body[i]) \/ body[i] = "."
        /\ Cardinality(points) <= 1
        /\ IsDigit(body[Len(body)])

\* The value of a numeral: its digits read as an integer, shifted by the
\* number of digits after the point.
NumeralValue(text) ==
    LET neg == text[1] = "-"
        digits == SelectSeq(text, IsDigit)
        point == {i \in 1..Len(text) : text[i] = "."}
        frac == IF point = {} THEN 0 ELSE Len(text) - (CHOOSE i \in point : TRUE)
    IN  Float((IF neg THEN -1 ELSE 1) * DigitsValue(digits), -frac)

\* The length of the longest prefix of text that is a numeral (0 if none).
LeadingNumeralLen(text) ==
    LET L == {k \in 1..Len(text) : IsNumeral(SubSeq(text, 1, k))}
    IN  IF L = {} THEN 0 ELSE CHOOSE k \in L : \A j \in L : j <= k

ClaimedMultiplierExponent(ch) ==
    IF ch = "K" THEN 3 ELSE IF ch = "M" THEN 6 ELSE IF ch = "B" THEN 9 ELSE 12

ExpectedOfExamples ==
    /\ cell = <<"1", ",", "2", "3", "4">> => parsed = Float(1234, 0)
    /\ cell = <<"5", "%">> => parsed = Float(5, 0)
    /\ cell = <<"1", ".", "2", "K">> => parsed = Float(1200, 0)
    /\ cell = <<"2", "M">> => parsed = Float(2000000, 0)
    /\ cell = <<>> => parsed = Null
    /\ cell = <<"a", "b", "c">> => parsed = Null
    /\ cell = NoText => parsed = Null

\* C8: the parsed value of every cell text is the one the specification
\* gives: commas and % are stripped without scaling, a trailing K/M/B/T
\* multiplies the leading numeral by 10^3/10^6/10^9/10^12, a suffixed text
\* without a leading numeral is parsed whole (and so is null), a plain
\* numeral is its value, and a text without a digit is null.
C8_ParseMatchesSpecification ==
    parsed # Pending =>
        /\ ExpectedOfExamples
        /\ cell # NoText =>
            LET c == Stripped(cell)
                suffixed == c # <<>> /\ c[Len(c)] \in {"K", "M", "B", "T"}
                k == LeadingNumeralLen(c)
            IN  /\ (suffixed /\ k > 0) =>
                       parsed = Scale(NumeralValue(SubSeq(c, 1, k)),
                                      ClaimedMultiplierExponent(c[Len(c)]))
                /\ (suffixed /\ k = 0) => parsed = Null
                /\ (~suffixed /\ IsNumeral(c)) => parsed = NumeralValue(c)
                /\ (\A i \in 1..Len(c) : ~IsDigit(c[i])) => parsed = Null

\* A suffixed cell with a comma has been parsed and scaled.
C8_Witness ==
    /\ cell = <<"2", ",", "K">>
    /\ parsed = Float(2000, 0)

(***************************** claims under SpecLoad ***********************)
Positions == {<<f, r>> : f \in 1..Len(files), r \in 1..MaxLoadRows}

ValidPositions == {p \in Positions : p[2] <= Len(files[p[1]])}

\* Concatenation order: file order, then order within the file.
Before(p, q) == p[1] < q[1] \/ (p[1] = q[1] /\ p[2] < q[2])

DateAt(p) == to_datetime(files[p[1]][p[2]].Date)

FirstWithDate(d) ==
    CHOOSE p \in ValidPositions :
        /\ DateAt(p) = d
        /\ \A q \in ValidPositions : DateAt(q) = d => (q = p \/ Before(p, q))

InputDates == {DateAt(p) : p \in ValidPositions}

\* C7: the loaded series has exactly one row per distinct date of the
\* concatenated input rows, carrying the values of the first row with that
\* date in concatenation order.
C7_OneRowPerDateFirstKept ==
    series.kind = "table" =>
        /\ {series.lf[k].Date : k \in 1..Len(series.lf)} = InputDates
        /\ \A d \in InputDates :
              LET hits == {k \in 1..Len(series.lf) : series.lf[k].Date = d}
                  p == FirstWithDate(d)
              IN  /\ Cardinality(hits) = 1
                  /\ \A k \in hits :
                        series.lf[k].Price = ParseCell(files[p[1]][p[2]].Price)

\* Two files repeat a date with different prices, and the load kept one row.
C7_Witness ==
    /\ series.kind = "table"
    /\ Len(files) = 2
    /\ Len(series.lf) = 1
    /\ \E r1 \in 1..Len(files[1]), r2 \in 1..Len(files[2]) :
          /\ to_datetime(files[1][r1].Date) = to_datetime(files[2][r2].Date)
          /\ ~IsNull(to_datetime(files[1][r1].Date))
          /\ files[1][r1].Price # files[2][r2].Price

(***************************** claims under SpecAlign **********************)
AllSeries == \A k \in 1..Len(data) : HasDate(data[k].lf)

AllDays == UNION {DateDays(data[k].lf) : k \in 1..Len(data)}

RowsOnDay(t, d) == {i \in 1..Height(t) : ColOf(t, DateName).vals[i] = Rat(d, 1)}

\* C6: for a non-empty collection of series with at least one date, the
\* aligned table has exactly one row for every day from the earliest to the
\* latest date and no other row, and an instrument's column is null on
\* every day the instrument has no row (and holds its value otherwise).
C6_OneRowPerCalendarDay ==
    (aligned # NotLoaded /\ data # <<>> /\ AllSeries /\ AllDays # {}) =>
        /\ aligned.kind = "table"
        /\ Height(aligned.lf) = SetMax(AllDays) - SetMin(AllDays) + 1
        /\ \A d \in SetMin(AllDays)..SetMax(AllDays) :
              /\ Cardinality(RowsOnDay(aligned.lf, d)) = 1
              /\ \A i \in RowsOnDay(aligned.lf, d), k \in 1..Len(data) :
                    LET v == ColOf(aligned.lf, data[k].name \o <<"Price">>).vals[i]
                        mine == RowsOnDay(data[k].lf, d)
                    IN  IF mine = {} THEN IsNull(v)
                        ELSE \A j \in mine : v = ColOf(data[k].lf, <<"Price">>).vals[j]

\* Two series whose date ranges do not touch were aligned over the gap.
C6_Witness ==
    /\ aligned.kind = "table"
    /\ Len(data) = 2
    /\ DateDays(data[1].lf) = {1}
    /\ DateDays(data[2].lf) = {MaxDay}
    /\ Height(aligned.lf) = MaxDay

\* C10: concat_all_data fails with a validation error and returns no table
\* exactly when the collection is empty, a series lacks the Date column, or
\* no series has a non-null date; otherwise it returns a table.
C10_ValidationErrorIffInvalid ==
    aligned # NotLoaded =>
        LET invalid == \/ data = <<>>
                       \/ ~AllSeries
                       \/ \A k \in 1..Len(data) : DateDays(data[k].lf) = {}
        IN  /\ invalid => (aligned.kind = "raise" /\ aligned.err = "ValueError"
                              /\ aligned.lf = <<>>)
            /\ ~invalid => aligned.kind = "table"

\* Every series has a Date column but all dates are null: rejected.
C10_Witness ==
    /\ aligned.kind = "raise"
    /\ Len(data) = 2
    /\ AllSeries
    /\ \A k \in 1..Len(data) : Height(data[k].lf) = 1 /\ DateDays(data[k].lf) = {}

(***************************** claims under SpecPipeline *******************)
\* The Gap Filler stage of the pipeline has run and produced a table.
Filled ==
    /\ pipe.pc \notin {"idle", "load", "drop", "track", "interpolate"}
    /\ pipe.interpolated_data # <<>>

NullFlags(vals) == [i \in 1..Len(vals) |-> IF IsNull(vals[i]) THEN Rat(1, 1) ELSE Rat(0, 1)]

\* C3: with null tracking on, the pipeline tracks before it fills: after the
\* Gap Filler ran, every column c of the aligned table other than Date has
\* a column c_was_null that is 1 exactly where the aligned table's c is
\* null and 0 elsewhere, whatever the fill made of c.
C3_WasNullReflectsPreFillNulls ==
    (Filled /\ pipe.args.track_nans) =>
        \A c \in 1..Len(pipe.full_data) :
            pipe.full_data[c].name # DateName =>
                LET flag == pipe.full_data[c].name \o <<"was", "null">>
                IN  /\ flag \in NameSet(pipe.interpolated_data)
                    /\ ColOf(pipe.interpolated_data, flag).vals
                           = NullFlags(pipe.full_data[c].vals)

\* ffill replaced a null of the aligned table and the flag still marks it.
C3_Witness ==
    /\ Filled
    /\ pipe.args.track_nans
    /\ pipe.args.interpolation_type = "ffill"
    /\ \E c \in 1..Len(pipe.full_data), i \in 1..Height(pipe.full_data) :
          /\ IsNull(pipe.full_data[c].vals[i])
          /\ ~IsNull(ColOf(pipe.interpolated_data, pipe.full_data[c].name).vals[i])
          /\ ColOf(pipe.interpolated_data,
                   pipe.full_data[c].name \o <<"was", "null">>).vals[i] = Rat(1, 1)

(***************************** claims under SpecScenario *******************)
\* C9 as stated: the scenario ends with five rows and the columns Date,
\* gold_Price, gold_Price_was_null, oil_Price, oil_Price_was_null,
\* gold_Price_ma_2d, oil_Price_ma_2d, in this order.
C9_ScenarioColumnsInterleaved ==
    scen.pc \notin {"idle", "align", "track", "fill", "ma"} =>
        /\ scen.pc = "done"
        /\ Height(scen.t) = Cardinality(ScenarioDates)
        /\ Names(scen.t) =
             <<<<"Date">>, <<"gold", "Price">>, <<"gold", "Price", "was", "null">>,
               <<"oil", "Price">>, <<"oil", "Price", "was", "null">>,
               <<"gold", "Price", "ma", "2d">>, <<"oil", "Price", "ma", "2d">>>>

\* C9 amended: the scenario ends with five rows and the columns Date,
\* gold_Price, oil_Price, gold_Price_was_null, oil_Price_was_null,
\* gold_Price_ma_2d, oil_Price_ma_2d, in this order: the null indicators
\* are appended after all the price columns.
C9_ScenarioColumnsAppended ==
    scen.pc \notin {"idle", "align", "track", "fill", "ma"} =>
        /\ scen.pc = "done"
        /\ Height(scen.t) = Cardinality(ScenarioDates)
        /\ Names(scen.t) =
             <<<<"Date">>, <<"gold", "Price">>, <<"oil", "Price">>,
               <<"gold", "Price", "was", "null">>, <<"oil", "Price", "was", "null">>,
               <<"gold", "Price", "ma", "2d">>, <<"oil", "Price", "ma", "2d">>>>

\* The scenario ran to its end on prices with a gap that ffill closed.
C9_Witness ==
    /\ scen.pc = "done"
    /\ IsNull(ColOf(scen.input[1].lf, <<"Price">>).vals[2])
    /\ ColOf(scen.t, <<"gold", "Price">>).vals[2] = Rat(2, 1)
    /\ ColOf(scen.t, <<"gold", "Price", "ma", "2d">>).vals[3] = Rat(3, 2)


(***************************** claims under SpecFeature *******************)
\* The raw columns of a table: the base columns as the specification
\* defines them.
SpecBaseNames(t) == {Names(t)[i] : i \in {j \in 1..Len(t) : IsBaseName(Names(t)[j])}}

\* C11: add_rolling_stats validates like moving_average: a call with
\* window_size <= 0, min_samples <= 0 or min_samples > window_size, or with
\* an empty or unrecognized stats list, is rejected with a configuration
\* error (ValueError) and adds no column.
C11_RollingStatsValidatesLikeMovingAverage ==
    (/\ call.op = "add_rolling_stats"
     /\ \/ ~MaConfigValid(<<call.arg[1], call.arg[2]>>)
        \/ call.arg[3] = <<>>
        \/ call.arg[3] # <<"None">> /\ ~(SeqRange(call.arg[3]) \subseteq StatNames))
    => (out = Raise("ValueError") /\ lf = prev)

RECURSIVE SumOver(_, _)
SumOver(S, vals) ==
    IF S = {} THEN Rat(0, 1)
    ELSE LET j == CHOOSE k \in S : TRUE
         IN  RatAdd(vals[j], SumOver(S \ {j}, vals))

\* The trailing mean the specification describes, row by row.
TrailingMean(vals, w, ms) ==
    [i \in 1..Len(vals) |->
        LET present == {j \in 1..Len(vals) : j <= i /\ j > i - w /\ ~IsNull(vals[j])}
            total == SumOver(present, vals)
        IN  IF Cardinality(present) >= ms
            THEN Rat(total.n, total.d * Cardinality(present))
            ELSE Null]

HasColumn(t, name, vals) == \E i \in 1..Len(t) : t[i].name = name /\ t[i].vals = vals

\* C12: for every valid (window_size, min_samples) and every base column,
\* moving_average adds {col}_ma_{window_size}d holding, at each row, the mean
\* of the non-null values among the last window_size rows when at least
\* min_samples of them are non-null, and null otherwise; window 3 with
\* min_samples 3 on [1,2,null,4,5] leaves the first three rows null.
C12_MovingAverageIsTrailingMean ==
    (/\ call.op = "moving_average"
     /\ \A k \in 1..Len(call.arg) : MaConfigValid(call.arg[k]))
    => /\ out.kind = "table"
       /\ \A k \in 1..Len(call.arg) : \A col \in SpecBaseNames(prev) :
             HasColumn(lf, col \o <<"ma", WindowToken(call.arg[k][1])>>,
                       TrailingMean(ColOf(prev, col).vals, call.arg[k][1], call.arg[k][2]))
       /\ \A i \in 1..Len(prev) : lf[i] = prev[i]
       /\ (prev = PriceTable(ExampleMaColumn) /\ call.arg = ExampleMaConfigs)
            => \A i \in 1..3 : IsNull(ColOf(lf, <<"gold", "Price", "ma", "3d">>).vals[i])

C12_Witness ==
    /\ call.op = "moving_average"
    /\ call.arg = ExampleMaConfigs
    /\ prev = PriceTable(ExampleMaColumn)
    /\ out.kind = "table"
    /\ Len(lf) = 3
    /\ lf[3].name = <<"gold", "Price", "ma", "3d">>
    /\ \A i \in 1..5 : IsNull(lf[3].vals[i])

\* The percent return the specification describes: value[t] / value[t-1] - 1
\* from the second row on, null at the first row.
ClaimedPercentReturn(vals) ==
    [i \in 1..Len(vals) |->
        IF i = 1 \/ IsNull(vals[i]) \/ IsNull(vals[i - 1]) THEN Null
        ELSE RatSub(Rat(vals[i].n * vals[i - 1].d, vals[i].d * vals[i - 1].n), Rat(1, 1))]

\* C13: add_returns with "percent" adds {col}_return = value[t]/value[t-1] - 1
\* with a null first row for every base column ([100,110,99] gives
\* [null, 1/10, -1/10]); with "log" it adds {col}_log_return, null at the
\* first row; an empty list or one with any other name is rejected with a
\* configuration error (ValueError) and the table is left as it was.
C13_ReturnsPerBaseColumn ==
    call.op = "add_returns" =>
        IF call.arg = <<>> \/ ~(SeqRange(call.arg) \subseteq {"percent", "log"})
        THEN out = Raise("ValueError") /\ lf = prev
        ELSE /\ out.kind = "table"
             /\ \A i \in 1..Len(prev) : lf[i] = prev[i]
             /\ "percent" \in SeqRange(call.arg) =>
                   \A col \in SpecBaseNames(prev) :
                       HasColumn(lf, col \o <<"return">>,
                                 ClaimedPercentReturn(ColOf(prev, col).vals))
             /\ "log" \in SeqRange(call.arg) =>
                   \A col \in SpecBaseNames(prev) :
                       \E i \in 1..Len(lf) :
                           /\ lf[i].name = col \o <<"log", "return">>
                           /\ IsNull(lf[i].vals[1])
                           /\ \A r \in 2..Height(prev) :
                                 IsNull(lf[i].vals[r])
                                   <=> (IsNull(ColOf(prev, col).vals[r])
                                        \/ IsNull(ColOf(prev, col).vals[r - 1]))
             /\ prev = PriceTable(ExampleReturnColumn) /\ "percent" \in SeqRange(call.arg)
                   => ColOf(lf, <<"gold", "Price", "return">>).vals
                        = <<Null, Rat(1, 10), Rat(-1, 10)>>

C13_Witness ==
    /\ call.op = "add_returns"
    /\ call.arg = <<"percent", "log">>
    /\ prev = PriceTable(ExampleReturnColumn)
    /\ Len(lf) = 4
    /\ lf[3].name = <<"gold", "Price", "return">>
    /\ lf[3].vals = <<Null, Rat(1, 10), Rat(-1, 10)>>
    /\ lf[4].name = <<"gold", "Price", "log", "return">>
    /\ IsNull(lf[4].vals[1])

(***************************** claims under SpecPipeline ******************)
\* C14: in run_data_pipeline with drop_nulls true, for either value of
\* track_nans, the table that reaches null tracking, filling and feature
\* derivation holds exactly the rows of the aligned table without a null.
C14_DropNullsBeforeLaterStages ==
    (pipe.pc \in {"interpolate", "ma", "ewma", "returns", "rolling", "done"}
     /\ pipe.args.drop_nulls)
    => ColOf(pipe.track_data, DateName).vals
         = ColOf(drop_nulls(pipe.full_data), DateName).vals

DefaultFeatures ==
    [ma_configs |-> NotGiven, ewma_configs |-> NotGiven,
     returns_features |-> NotGiven, rolling_var_features |-> NotGiven]

\* C15: run_data_pipeline applies rolling dispersion once per entry of its
\* rolling-stat configuration, so a completed run holds
\* {col}_rolling_{stat}_{w}d for every configured window, stat and base
\* column; and with the default configuration, a folder with instruments
\* and an implemented fill strategy, the run completes every stage.
C15_RollingStatsPerConfigEntry ==
    /\ pipe.pc = "done" =>
          LET configs == OrDefault(pipe.args.features.rolling_var_features,
                                   DefaultRollingVarFeatures)
          IN  \A k \in 1..Len(configs) : \A col \in SpecBaseNames(pipe.full_data) :
                \A j \in 1..Len(configs[k].stats) :
                  (col \o <<"rolling", configs[k].stats[j],
                            WindowToken(configs[k].window_size)>>)
                     \in NameSet(pipe.var_data)
    /\ (/\ pipe.pc # "idle"
        /\ pipe.args.features = DefaultFeatures
        /\ pipe.lf_dict # <<>>
        /\ pipe.args.interpolation_type \in {"ffill", "bfill", "linear", "None"})
       => pipe.pc # "failed"

====
